---- MODULE Spec2Model ----
(***************************************************************************)
(* A model of the native contract-creation tracer                          *)
(* (eth/tracers/native/contract.go), of its bytecode scanner findOpcodes,  *)
(* and of the gas-estimation engine exercised by                           *)
(* accounts/abi/bind/backends/simulated_test.go.                           *)
(*                                                                         *)
(* Three specifications share the variables:                               *)
(*   Spec      the tracer: the executing thread's hooks, GetResult, and a  *)
(*             canceller thread running Stop                               *)
(*   SpecScan  the loop of findOpcodes, one iteration per step             *)
(*   SpecGas   one gas estimation, one probe per step                      *)
(***************************************************************************)
EXTENDS Integers, Sequences, FiniteSets, TLC

\* ------------------------------------------------------------------ bounds

\* Longest bytecode handed to the scanner in SpecScan.
MaxLen == 4

\* Deepest nesting of frames below the root frame.
MaxDepth == 1

\* The execution ceiling of a gas estimation (the pending block's gas limit),
\* in gas units.
Ceiling == 6

\* The intrinsic floor of a plain transfer (params.TxGas), in the same units.
FloorGas == 2

\* ------------------------------------------------- instruction codes (vm)

STOP == 0

PUSH1 == 96

PUSH2 == 97

PUSH32 == 127

CREATE == 240

CALL == 241

CREATE2 == 245

\* The literal of "i += int(op - 95)".
PushBase == 95

\* PushSkip with the operand counted one byte short: the last operand byte is
\* read as an instruction.
PushSkip_OneShort(op) == op - PUSH1

\* PushSkip with the operand counted one byte long: the instruction after the
\* operand is skipped.
PushSkip_OneLong(op) == op - PushBase + 1

\* PushSkip that measures the operand from PUSH2: a PUSH1 leaves the cursor
\* where it is.
PushSkip_FromPush2(op) == op - PUSH2

\* "int(op - 95)": the operand bytes a push instruction carries.
PushSkip(op) == op - PushBase

\* vm.OpCode.IsPush: PUSH1..PUSH32 carry an immediate operand.
IsPush(op) == PUSH1 <= op /\ op <= PUSH32

\* vm.StringToOp: a lookup in the name table; a name that is not in the
\* table yields the zero value of OpCode, which is also STOP's code.
StringToOp(str) ==
    CASE str = "STOP" -> STOP
      [] str = "PUSH1" -> PUSH1
      [] str = "CREATE" -> CREATE
      [] str = "CREATE2" -> CREATE2
      [] OTHER -> 0

\* The names StringToOp knows, among those the model configures.
KnownOpNames == {"STOP", "PUSH1", "CREATE", "CREATE2"}

\* ------------------------------------------------------- bytecode scanner

\* findOpcodes that compares the byte with opcode before it looks for a push.
RECURSIVE findOpcodesFrom_CompareFirst(_, _, _)
findOpcodesFrom_CompareFirst(bytecode, opcode, i) ==
    IF i >= Len(bytecode) THEN FALSE
    ELSE LET op == bytecode[i + 1] IN
         IF op = opcode THEN TRUE
         ELSE IF IsPush(op)
              THEN findOpcodesFrom_CompareFirst(bytecode, opcode, i + PushSkip(op) + 1)
              ELSE findOpcodesFrom_CompareFirst(bytecode, opcode, i + 1)

\* findOpcodes, the loop from cursor i (0-based) on: a push instruction moves
\* the cursor over its operand and is never compared; any other byte is
\* compared with opcode.
RECURSIVE findOpcodesFrom(_, _, _)
findOpcodesFrom(bytecode, opcode, i) ==
    IF i >= Len(bytecode) THEN FALSE
    ELSE LET op == bytecode[i + 1] IN
         IF IsPush(op) THEN findOpcodesFrom(bytecode, opcode, i + PushSkip(op) + 1)
         ELSE IF op = opcode THEN TRUE
         ELSE findOpcodesFrom(bytecode, opcode, i + 1)

findOpcodes(bytecode, opcode) == findOpcodesFrom(bytecode, opcode, 0)

\* ------------------------------------------------------------- rendering

HexDigits == <<"0", "1", "2", "3", "4", "5", "6", "7",
               "8", "9", "a", "b", "c", "d", "e", "f">>

\* bytesToHex: "0x" followed by two lower-case hex digits per byte; a string
\* is a sequence of characters, the empty string the empty sequence.
bytesToHex(s) ==
    <<"0", "x">> \o
    [k \in 1..(2 * Len(s)) |->
        IF k % 2 = 1 THEN HexDigits[(s[(k + 1) \div 2] \div 16) + 1]
        ELSE HexDigits[(s[k \div 2] % 16) + 1]]

\* The addresses frames are created at.
Addresses == {"a1", "a2"}

\* addrToHex: the address as a "0x" hex string (one digit pair stands for the
\* twenty bytes).
addrToHex(a) == IF a = "a1" THEN <<"0", "x", "a", "1">> ELSE <<"0", "x", "a", "2">>

\* ------------------------------------------------------------- variables

VARIABLES
    bytecode,   \* findOpcodes: the byte sequence scanned
    opcode,     \* findOpcodes: the instruction code looked for
    i,          \* findOpcodes: the loop's cursor, 0-based
    found       \* findOpcodes: "running", or the value returned

scanVars == <<bytecode, opcode, i, found>>

VARIABLES
    call,       \* the call whose gas is estimated, with the executor's answers
    lower,      \* the search state's lower bound
    upper,      \* the search state's upper bound
    gasPc,      \* the estimation's place in the algorithm
    probes,     \* the executions made so far: gas and outcome
    estimate    \* what the estimation returned

gasVars == <<call, lower, upper, gasPc, probes, estimate>>

\* ---------------------------------------------------------------- tracer

VARIABLES
    Addrs,      \* contractTracer.Addrs: hex address -> "" or hex bytecode
    config,     \* contractTracer.config, after NewContractTracer
    interrupt,  \* contractTracer.interrupt, the atomic flag
    reason,     \* contractTracer.reason; "nil" is the nil error
    cfg,        \* the configuration NewContractTracer was given
    phase,      \* the executor's place in the traced call
    depth,      \* frames open below the root frame
    stopPc,     \* the canceller thread's place inside Stop
    stopArg,    \* the error the latest Stop call was given; "none" before any
    seen,       \* per creation kind: how many frames the tracer was shown, and
                \* the frame when it was exactly one
    lastOp,     \* the operation that ran last
    lastArg,    \* what that operation was given
    result      \* what the latest GetResult returned

tracerVars == <<Addrs, config, interrupt, reason, cfg, phase, depth,
                stopPc, stopArg, seen, lastOp, lastArg, result>>

\* The opcode names a tracer is configured with: none, valid names, and a
\* name the table does not know.
OpNames == {"", "STOP", "PUSH1", "CREATE2", "bogus"}

\* The errors Stop is called with; a Go error may be nil.
Reasons == {"nil", "execution timeout"}

\* The bytecode creation frames carry.
Inputs == {<<STOP>>, <<CREATE2>>, <<PUSH1, CREATE2>>, <<PUSH1, STOP>>}

\* The frame kinds CaptureEnter is called with.
FrameKinds == {CALL, CREATE, CREATE2}

EmptyAddrs == << >>

\* t.Addrs[key] = value
MapPut(m, key, value) ==
    [x \in (DOMAIN m) \cup {key} |-> IF x = key THEN value ELSE m[x]]

\* NewContractTracer without the handling of an unknown name.
NewContractTracer_KeepsName(c) == c

\* NewContractTracer without the exception for "STOP": every name whose code
\* is 0 is replaced.
NewContractTracer_StopInvalid(c) ==
    IF StringToOp(c.OpCode) = 0 /\ c.OpCode # ""
    THEN [c EXCEPT !.OpCode = "inv"]
    ELSE c

\* NewContractTracer: a name the table does not know, other than the empty
\* one, is replaced by "inv"; construction never fails for it.
NewContractTracer(c) ==
    IF StringToOp(c.OpCode) = 0 /\ c.OpCode # "STOP" /\ c.OpCode # ""
    THEN [c EXCEPT !.OpCode = "inv"]
    ELSE c

\* validateAndStoreOpCode that never stores the bytecode.
validateAndStoreOpCode_NoByteCode(addrs, conf, input, to) ==
    IF conf.OpCode = "inv"
       \/ (conf.OpCode # "" /\ ~findOpcodes(input, StringToOp(conf.OpCode)))
    THEN addrs
    ELSE MapPut(addrs, addrToHex(to), << >>)

\* validateAndStoreOpCode that scans for the empty name's code as well.
validateAndStoreOpCode_FiltersEmpty(addrs, conf, input, to) ==
    IF conf.OpCode = "inv" \/ ~findOpcodes(input, StringToOp(conf.OpCode))
    THEN addrs
    ELSE IF conf.WithByteCode
         THEN MapPut(addrs, addrToHex(to), bytesToHex(input))
         ELSE MapPut(addrs, addrToHex(to), << >>)

\* validateAndStoreOpCode: the mapping after the call.
validateAndStoreOpCode(addrs, conf, input, to) ==
    IF conf.OpCode = "inv"
       \/ (conf.OpCode # "" /\ ~findOpcodes(input, StringToOp(conf.OpCode)))
    THEN addrs
    ELSE IF conf.WithByteCode
         THEN MapPut(addrs, addrToHex(to), bytesToHex(input))
         ELSE MapPut(addrs, addrToHex(to), << >>)

NoResult == [called |-> FALSE]

NoFrame == [n |-> 0, to |-> "-", input |-> << >>]

ManyFrames == [n |-> 2, to |-> "-", input |-> << >>]

\* seen after one more creation frame of this kind; a creating root frame is
\* a CREATE.
Observe(s, kind, to, input) ==
    [s EXCEPT ![kind] = IF @.n = 0 THEN [n |-> 1, to |-> to, input |-> input]
                        ELSE ManyFrames]

TracerInit ==
    /\ cfg \in [OpCode : OpNames, WithByteCode : BOOLEAN]
    /\ config = NewContractTracer(cfg)
    /\ Addrs = EmptyAddrs
    /\ interrupt = 0
    /\ reason = "nil"
    /\ phase = "idle"
    /\ depth = 0
    /\ stopPc = "idle"
    /\ stopArg = "none"
    /\ seen = [k \in {CREATE, CREATE2} |-> NoFrame]
    /\ lastOp = "NewContractTracer"
    /\ lastArg = "-"
    /\ result = NoResult

\* The executor's side of the hook protocol: the root frame opens once, nested
\* frames open and close inside it in stack order, instructions and faults
\* happen while it is open, and it closes after every nested frame has.
MayStart == phase = "idle"

MayEnter == phase = "running" /\ depth < MaxDepth

MayExit == phase = "running" /\ depth > 0

MayStep == phase = "running"

MayEnd == phase = "running" /\ depth = 0

\* CaptureStart: the root frame opens. The hook does not read the flag.
CaptureStart ==
    /\ MayStart
    /\ \E to \in Addresses, create \in BOOLEAN, input \in Inputs :
        /\ Addrs' = IF create
                    THEN validateAndStoreOpCode(Addrs, config, input, to)
                    ELSE Addrs
        /\ seen' = IF create THEN Observe(seen, CREATE, to, input) ELSE seen
        /\ lastArg' = IF create THEN "create" ELSE "call"
    /\ phase' = "running"
    /\ lastOp' = "CaptureStart"
    /\ UNCHANGED <<scanVars, gasVars, config, interrupt, reason, cfg, depth, stopPc, stopArg, result>>

\* CaptureEnter that does not look at the frame kind.
CaptureEnter_AnyKind ==
    /\ MayEnter
    /\ \E typ \in FrameKinds, to \in Addresses, input \in Inputs :
        /\ Addrs' = IF interrupt > 0 THEN Addrs
                    ELSE validateAndStoreOpCode(Addrs, config, input, to)
        /\ seen' = IF typ \in {CREATE, CREATE2}
                   THEN Observe(seen, typ, to, input)
                   ELSE seen
        /\ lastArg' = IF typ \in {CREATE, CREATE2} THEN "create" ELSE "call"
    /\ depth' = depth + 1
    /\ lastOp' = "CaptureEnter"
    /\ UNCHANGED <<scanVars, gasVars, config, interrupt, reason, cfg, phase, stopPc, stopArg, result>>

\* CaptureEnter: a nested frame opens.
CaptureEnter ==
    /\ MayEnter
    /\ \E typ \in FrameKinds, to \in Addresses, input \in Inputs :
        /\ Addrs' = IF interrupt > 0 THEN Addrs
                    ELSE IF typ = CREATE \/ typ = CREATE2
                         THEN validateAndStoreOpCode(Addrs, config, input, to)
                         ELSE Addrs
        /\ seen' = IF typ \in {CREATE, CREATE2}
                   THEN Observe(seen, typ, to, input)
                   ELSE seen
        /\ lastArg' = IF typ \in {CREATE, CREATE2} THEN "create" ELSE "call"
    /\ depth' = depth + 1
    /\ lastOp' = "CaptureEnter"
    /\ UNCHANGED <<scanVars, gasVars, config, interrupt, reason, cfg, phase, stopPc, stopArg, result>>

\* CaptureExit: a nested frame closes. The body is empty.
CaptureExit ==
    /\ MayExit
    /\ depth' = depth - 1
    /\ lastOp' = "CaptureExit"
    /\ lastArg' = "-"
    /\ UNCHANGED <<scanVars, gasVars, Addrs, config, interrupt, reason, cfg, phase, stopPc, stopArg,
                   seen, result>>

\* CaptureState: before an instruction. The body is empty.
CaptureState ==
    /\ MayStep
    /\ lastOp' = "CaptureState"
    /\ lastArg' = "-"
    /\ UNCHANGED <<scanVars, gasVars, Addrs, config, interrupt, reason, cfg, phase, depth, stopPc,
                   stopArg, seen, result>>

\* CaptureFault: an instruction aborted its frame. The body is empty.
CaptureFault ==
    /\ MayStep
    /\ lastOp' = "CaptureFault"
    /\ lastArg' = "-"
    /\ UNCHANGED <<scanVars, gasVars, Addrs, config, interrupt, reason, cfg, phase, depth, stopPc,
                   stopArg, seen, result>>

\* CaptureEnd: the root frame closes. The body is empty.
CaptureEnd ==
    /\ MayEnd
    /\ phase' = "completed"
    /\ lastOp' = "CaptureEnd"
    /\ lastArg' = "-"
    /\ UNCHANGED <<scanVars, gasVars, Addrs, config, interrupt, reason, cfg, depth, stopPc, stopArg,
                   seen, result>>

\* GetResult that returns no failure, whatever reason was recorded.
GetResultValue_NoReason(addrs, rsn) ==
    [called |-> TRUE, payload |-> [nil |-> FALSE, json |-> addrs], err |-> "nil"]

\* GetResult: json.Marshal of a map of strings cannot fail, so the payload is
\* always there; the second value is t.reason as it stands.
GetResultValue(addrs, rsn) ==
    [called |-> TRUE, payload |-> [nil |-> FALSE, json |-> addrs], err |-> rsn]

\* GetResult that rearms the tracer by clearing the flag.
GetResult_ResetsFlag ==
    /\ result' = GetResultValue(Addrs, reason)
    /\ interrupt' = 0
    /\ phase' = "finalized"
    /\ lastOp' = "GetResult"
    /\ lastArg' = "-"
    /\ UNCHANGED <<scanVars, gasVars, Addrs, config, reason, cfg, depth, stopPc,
                   stopArg, seen>>

\* The code does not look at the lifecycle: the call is taken in any phase,
\* and ends the use of the tracer by the executing thread.
GetResult ==
    /\ result' = GetResultValue(Addrs, reason)
    /\ phase' = "finalized"
    /\ lastOp' = "GetResult"
    /\ lastArg' = "-"
    /\ UNCHANGED <<scanVars, gasVars, Addrs, config, interrupt, reason, cfg, depth, stopPc,
                   stopArg, seen>>

\* Stop that publishes the flag in its first statement, before the reason is
\* written.
StopSetReason_FlagFirst ==
    /\ stopPc = "idle"
    /\ \E err \in Reasons :
        /\ stopArg' = err
        /\ lastArg' = IF err = stopArg THEN "same error" ELSE "new error"
    /\ interrupt' = 1
    /\ stopPc' = "store"
    /\ lastOp' = "StopSetReason"
    /\ UNCHANGED <<scanVars, gasVars, Addrs, config, reason, cfg, phase, depth, seen, result>>

\* Stop, first statement: t.reason = err.
StopSetReason ==
    /\ stopPc = "idle"
    /\ \E err \in Reasons :
        /\ reason' = err
        /\ stopArg' = err
        /\ lastArg' = IF err = stopArg THEN "same error" ELSE "new error"
    /\ stopPc' = "store"
    /\ lastOp' = "StopSetReason"
    /\ UNCHANGED <<scanVars, gasVars, Addrs, config, interrupt, cfg, phase, depth, seen, result>>

\* Stop whose second statement flips the flag instead of setting it.
StopStoreFlag_Toggles ==
    /\ stopPc = "store"
    /\ interrupt' = 1 - interrupt
    /\ stopPc' = "idle"
    /\ lastOp' = "Stop"
    /\ UNCHANGED <<scanVars, gasVars, Addrs, config, reason, cfg, phase, depth, stopArg, seen,
                   lastArg, result>>

\* Stop, second statement: atomic.StoreUint32(&t.interrupt, 1).
StopStoreFlag ==
    /\ stopPc = "store"
    /\ interrupt' = 1
    /\ stopPc' = "idle"
    /\ lastOp' = "Stop"
    /\ UNCHANGED <<scanVars, gasVars, Addrs, config, reason, cfg, phase, depth, stopArg, seen,
                   lastArg, result>>

TracerNext ==
    \/ CaptureStart
    \/ CaptureEnter
    \/ CaptureExit
    \/ CaptureState
    \/ CaptureFault
    \/ CaptureEnd
    \/ GetResult
    \/ StopSetReason
    \/ StopStoreFlag


\* The tracer before its traced call, for the specifications that leave it alone.
TracerIdle ==
    /\ cfg = [OpCode |-> "", WithByteCode |-> FALSE]
    /\ config = NewContractTracer(cfg)
    /\ Addrs = EmptyAddrs
    /\ interrupt = 0
    /\ reason = "nil"
    /\ phase = "idle"
    /\ depth = 0
    /\ stopPc = "idle"
    /\ stopArg = "none"
    /\ seen = [k \in {CREATE, CREATE2} |-> NoFrame]
    /\ lastOp = "NewContractTracer"
    /\ lastArg = "-"
    /\ result = NoResult

\* ------------------------------------------------- findOpcodes, stepwise

\* The bytes of the scanned sequences: plain instructions, and pushes of one,
\* two and thirty-two operand bytes.
ScanBytes == {STOP, PUSH1, PUSH2, PUSH32, CREATE, CREATE2}

\* Every sequence over S of length at most n.
SeqsUpTo(S, n) == UNION {[1..k -> S] : k \in 0..n}

ScanInit ==
    /\ bytecode \in SeqsUpTo(ScanBytes, MaxLen)
    /\ opcode \in ScanBytes
    /\ i = 0
    /\ found = "running"

ScanIdle ==
    /\ bytecode = << >>
    /\ opcode = STOP
    /\ i = 0
    /\ found = "running"

\* op := vm.OpCode(bytecode[i])
CurrentOp == bytecode[i + 1]

\* The loop's test holds and the byte is a push: i += int(op - 95); i++.
ScanPush ==
    /\ found = "running"
    /\ i < Len(bytecode)
    /\ IsPush(CurrentOp)
    /\ i' = i + PushSkip(CurrentOp) + 1
    /\ UNCHANGED <<bytecode, opcode, found, tracerVars, gasVars>>

\* The byte is no push and equals opcode: return true.
ScanMatch ==
    /\ found = "running"
    /\ i < Len(bytecode)
    /\ ~IsPush(CurrentOp)
    /\ CurrentOp = opcode
    /\ found' = "true"
    /\ UNCHANGED <<bytecode, opcode, i, tracerVars, gasVars>>

\* The byte is neither: i++.
ScanAdvance ==
    /\ found = "running"
    /\ i < Len(bytecode)
    /\ ~IsPush(CurrentOp)
    /\ CurrentOp # opcode
    /\ i' = i + 1
    /\ UNCHANGED <<bytecode, opcode, found, tracerVars, gasVars>>

\* The loop's test fails: return false.
ScanExit ==
    /\ found = "running"
    /\ i >= Len(bytecode)
    /\ found' = "false"
    /\ UNCHANGED <<bytecode, opcode, i, tracerVars, gasVars>>

ScanNext ==
    \/ ScanPush
    \/ ScanMatch
    \/ ScanAdvance
    \/ ScanExit

\* ---------------------------------------------------- gas estimation

\* What one execution reports: success, or the cause of the failure.
Outcomes == {"ok", "out of gas", "execution reverted", "invalid opcode"}

\* The intrinsic floor of the call shape: a plain transfer or a call without
\* input pays FloorGas, input data adds to it.
IntrinsicFloor(c) == IF c.shape = "transfer" THEN FloorGas ELSE FloorGas + 1

\* The calls estimated. gas is the caller's cap (0: none). The executor's
\* answers: out of gas below need, a revert from need up to revertBelow, and
\* final from there on; no call runs below its intrinsic floor.
Calls ==
    {c \in [shape : {"transfer", "invoke"}, gas : 0..Ceiling,
            need : 0..(Ceiling + 1), revertBelow : 0..(Ceiling + 1),
            final : Outcomes \ {"out of gas"}] :
        IntrinsicFloor(c) <= c.need /\ c.need <= c.revertBelow}

\* The executor collaborator: the call run with gas g on a fresh snapshot.
Execute(c, g) ==
    IF g < c.need THEN "out of gas"
    ELSE IF g < c.revertBelow THEN "execution reverted"
    ELSE c.final

\* The upper bound taken from the ceiling even when the caller gave a cap.
UpperBound_IgnoresCap(c) == Ceiling

\* Step 1, the upper bound: the caller's cap if present and positive, else the
\* execution ceiling.
UpperBound(c) == IF c.gas > 0 THEN c.gas ELSE Ceiling

\* Every failure reported as a lack of gas, whatever its cause.
Classify_AllOutOfGas(o, allowance) ==
    [kind |-> "gas required exceeds allowance", gas |-> allowance, cause |-> o]

\* The classified failure reported for a failed execution: out of gas names
\* the allowance, any other cause is an always failing transaction.
Classify(o, allowance) ==
    IF o = "out of gas"
    THEN [kind |-> "gas required exceeds allowance", gas |-> allowance, cause |-> o]
    ELSE [kind |-> "always failing transaction", gas |-> 0, cause |-> o]

Estimated(g) == [kind |-> "ok", gas |-> g, cause |-> "none"]

NoEstimate == [kind |-> "none", gas |-> 0, cause |-> "none"]

\* Step 5 applies to a plain transfer or a call with zero-length input.
ShortcutShape(c) == c.shape = "transfer"

\* Step 3, the candidate.
Candidate(lo, hi) == (lo + hi) \div 2

Probe(g) == [gas |-> g, outcome |-> Execute(call, g)]

\* Steps 3 and 4 run to their end from the bounds lo and hi.
RECURSIVE SearchFrom(_, _, _)
SearchFrom(c, lo, hi) ==
    IF hi - lo <= 1 THEN Estimated(hi)
    ELSE LET cand == Candidate(lo, hi)
             o == Execute(c, cand)
         IN IF o = "ok" THEN SearchFrom(c, lo, cand)
            ELSE IF o = "out of gas" THEN SearchFrom(c, cand, hi)
            ELSE Classify(o, hi)

\* Steps 1 to 4 without the shortcut of step 5.
FullSearch(c) ==
    IF Execute(c, UpperBound(c)) = "ok"
    THEN SearchFrom(c, IntrinsicFloor(c), UpperBound(c))
    ELSE Classify(Execute(c, UpperBound(c)), UpperBound(c))


GasInit ==
    /\ call \in Calls
    /\ lower = 0
    /\ upper = 0
    /\ gasPc = "bounds"
    /\ probes = << >>
    /\ estimate = NoEstimate

GasIdle ==
    /\ call = [shape |-> "transfer", gas |-> 0, need |-> FloorGas,
               revertBelow |-> FloorGas, final |-> "ok"]
    /\ lower = 0
    /\ upper = 0
    /\ gasPc = "bounds"
    /\ probes = << >>
    /\ estimate = NoEstimate

\* Step 1: establish the bounds.
EstablishBounds ==
    /\ gasPc = "bounds"
    /\ lower' = IntrinsicFloor(call)
    /\ upper' = UpperBound(call)
    /\ gasPc' = "feasibility"
    /\ UNCHANGED <<call, probes, estimate, tracerVars, scanVars>>

\* Step 2: the feasibility probe at the upper bound; a failure is reported
\* with its cause.
FeasibilityProbe ==
    /\ gasPc = "feasibility"
    /\ probes' = Append(probes, Probe(upper))
    /\ IF Execute(call, upper) = "ok"
       THEN /\ gasPc' = IF ShortcutShape(call) THEN "shortcut" ELSE "search"
            /\ estimate' = estimate
       ELSE /\ gasPc' = "done"
            /\ estimate' = Classify(Execute(call, upper), upper)
    /\ UNCHANGED <<call, lower, upper, tracerVars, scanVars>>

\* Step 5: one probe at the floor; if it succeeds the floor is returned and
\* the search is skipped.
ShortcutProbe ==
    /\ gasPc = "shortcut"
    /\ probes' = Append(probes, Probe(lower))
    /\ IF Execute(call, lower) = "ok"
       THEN /\ gasPc' = "done"
            /\ estimate' = Estimated(lower)
       ELSE /\ gasPc' = "search"
            /\ estimate' = estimate
    /\ UNCHANGED <<call, lower, upper, tracerVars, scanVars>>

\* Step 3: one probe at the candidate, strictly inside the bounds.
SearchProbe ==
    /\ gasPc = "search"
    /\ upper - lower > 1
    /\ LET cand == Candidate(lower, upper)
           o == Execute(call, cand)
       IN /\ probes' = Append(probes, Probe(cand))
          /\ IF o = "ok"
             THEN upper' = cand /\ lower' = lower /\ gasPc' = gasPc
                  /\ estimate' = estimate
             ELSE IF o = "out of gas"
             THEN lower' = cand /\ upper' = upper /\ gasPc' = gasPc
                  /\ estimate' = estimate
             ELSE lower' = lower /\ upper' = upper /\ gasPc' = "done"
                  /\ estimate' = Classify(o, upper)
    /\ UNCHANGED <<call, tracerVars, scanVars>>

\* Step 4: the bounds have met; the upper bound is returned.
Converge ==
    /\ gasPc = "search"
    /\ upper - lower <= 1
    /\ estimate' = Estimated(upper)
    /\ gasPc' = "done"
    /\ UNCHANGED <<call, lower, upper, probes, tracerVars, scanVars>>

GasNext ==
    \/ EstablishBounds
    \/ FeasibilityProbe
    \/ ShortcutProbe
    \/ SearchProbe
    \/ Converge

\* ------------------------------------------------------- specifications

vars == <<tracerVars, scanVars, gasVars>>

Init == TracerInit /\ ScanIdle /\ GasIdle

Next == TracerNext

Spec == Init /\ [][Next]_vars

InitScan == TracerIdle /\ ScanInit /\ GasIdle

SpecScan == InitScan /\ [][ScanNext]_vars

\* The scan as the loop of a running call: a step that can be taken is taken.
SpecScanFair == SpecScan /\ WF_vars(ScanNext)

InitGas == TracerIdle /\ ScanIdle /\ GasInit

SpecGas == InitGas /\ [][GasNext]_vars

\* ------------------------------------------- instruction boundaries (EVM)

\* The operand bytes that follow instruction code b: PUSHn carries n.
OperandLen(b) == IF b \in PUSH1..PUSH32 THEN b - PUSH1 + 1 ELSE 0

\* The positions (1-based) that hold an instruction when code is decoded left
\* to right from its first byte; every other position is push data.
RECURSIVE InstructionsFrom(_, _)
InstructionsFrom(code, k) ==
    IF k > Len(code) THEN {}
    ELSE {k} \cup InstructionsFrom(code, k + 1 + OperandLen(code[k]))

InstructionPositions(code) == InstructionsFrom(code, 1)

\* The instruction positions that hold op.
OccurrencesAsInstruction(code, op) ==
    {k \in InstructionPositions(code) : code[k] = op}

\* op is somewhere in code, and only as push data.
OnlyInPushData(code, op) ==
    /\ \E k \in 1..Len(code) : code[k] = op
    /\ OccurrencesAsInstruction(code, op) = {}

\* ------------------------------------------------------------ claims: Spec

\* C1: once Stop has returned (the flag is set), no later step changes the
\* Addrs mapping, whatever hook it is and whatever frames are open.
\* CaptureStart does not read the flag, so a creating root frame that starts
\* after Stop is recorded.
C1_NoMutationAfterStop == [][interrupt = 1 => Addrs' = Addrs]_vars

C3_InvalidOpcodeRecordsNothing ==
    (cfg.OpCode \notin KnownOpNames /\ cfg.OpCode # "") => Addrs = EmptyAddrs

\* C3's case: such a tracer was shown creation frames, at the root and nested,
\* with no interruption; an empty-filter tracer records each of them.
C3_Witness ==
    /\ cfg.OpCode = "bogus"
    /\ stopArg = "none"
    /\ seen[CREATE].n >= 1
    /\ seen[CREATE2].n = 1
    /\ seen[CREATE2].input = <<STOP>>
    /\ validateAndStoreOpCode(EmptyAddrs, [OpCode |-> "", WithByteCode |-> FALSE],
                              seen[CREATE2].input, seen[CREATE2].to) # EmptyAddrs
    /\ Addrs = EmptyAddrs

\* The scenario of C10: opCode=CREATE2 and withByteCode=true, exactly one
\* CREATE frame and one CREATE2 frame shown, with distinct bytecode, and no
\* interruption.
C10_Scenario ==
    /\ cfg = [OpCode |-> "CREATE2", WithByteCode |-> TRUE]
    /\ seen[CREATE].n = 1
    /\ seen[CREATE2].n = 1
    /\ seen[CREATE].input # seen[CREATE2].input
    /\ interrupt = 0

\* The one entry C10 expects: the CREATE2 frame's address with the hex of its
\* bytecode.
C10_Expected ==
    addrToHex(seen[CREATE2].to) :> bytesToHex(seen[CREATE2].input)

\* C10, as claimed: in the scenario Addrs is exactly the CREATE2 frame's entry.
C10_OnlyCreate2FrameRecorded == C10_Scenario => Addrs = C10_Expected

\* C10, amended: in the scenario Addrs is exactly the CREATE2 frame's entry
\* provided the CREATE2 frame's bytecode holds the CREATE2 instruction code at
\* an instruction position and the CREATE frame's bytecode does not; the
\* filter looks at the bytecode, never at the frame kind.
C10_RecordedByBytecode ==
    (/\ C10_Scenario
     /\ OccurrencesAsInstruction(seen[CREATE2].input, CREATE2) # {}
     /\ OccurrencesAsInstruction(seen[CREATE].input, CREATE2) = {})
    => Addrs = C10_Expected

\* C10's case: both frames shown at distinct addresses, the CREATE frame's
\* bytecode holding the CREATE2 code only as push data.
C10_Witness ==
    /\ C10_Scenario
    /\ seen[CREATE2].input = <<CREATE2>>
    /\ seen[CREATE].input = <<PUSH1, CREATE2>>
    /\ seen[CREATE].to # seen[CREATE2].to
    /\ phase = "completed"
    /\ Addrs = C10_Expected

\* -------------------------------------------------------- claims: SpecScan

\* C4: when every byte equal to the target lies inside a push operand (no
\* instruction position holds the target), findOpcodes does not return true:
\* the loop never reports a match and the function's value is false.
C4_PushDataNeverMatches ==
    OccurrencesAsInstruction(bytecode, opcode) = {} =>
        /\ found # "true"
        /\ ~findOpcodes(bytecode, opcode)

\* C4's case: the scan has returned over a sequence that holds the target as
\* push data.
C4_Witness ==
    /\ found = "false"
    /\ OnlyInPushData(bytecode, opcode)
    /\ Len(bytecode) = 3
    /\ bytecode[1] = PUSH2

\* C5, as claimed: a target that occurs exactly once at an instruction
\* position makes findOpcodes return true.
C5_SingleOccurrenceFound ==
    (found # "running" /\ Cardinality(OccurrencesAsInstruction(bytecode, opcode)) = 1)
    => found = "true"

\* C5, amended: a target that is not itself a push instruction and occurs
\* exactly once at an instruction position makes findOpcodes return true.
C5_SingleNonPushOccurrenceFound ==
    (/\ Cardinality(OccurrencesAsInstruction(bytecode, opcode)) = 1
     /\ opcode \notin PUSH1..PUSH32)
    => /\ found # "false"
       /\ findOpcodes(bytecode, opcode)

\* C5's case: the scan returned true for a target that also sits in push data
\* ahead of its one occurrence as an instruction.
C5_Witness ==
    /\ found = "true"
    /\ Cardinality(OccurrencesAsInstruction(bytecode, opcode)) = 1
    /\ opcode \notin PUSH1..PUSH32
    /\ bytecode[1] = PUSH1
    /\ bytecode[2] = opcode

\* --------------------------------------------------------- claims: SpecGas

\* Success at g implies success at every larger g.
SuccessMonotone(c) ==
    \A g, h \in 0..Ceiling : (g < h /\ Execute(c, g) = "ok") => Execute(c, h) = "ok"

\* The upper bound the claims speak of: the cap if positive, else the ceiling.
ClaimedUpper(c) == IF c.gas > 0 THEN c.gas ELSE Ceiling

\* The least gas at which the call succeeds.
MinimalGas(c) ==
    CHOOSE g \in 0..Ceiling :
        Execute(c, g) = "ok" /\ \A h \in 0..(g - 1) : Execute(c, h) # "ok"

\* C6: for a call whose success is monotonic in gas and which succeeds at the
\* upper bound, the estimation returns the least gas at which it succeeds.
C6_ReturnsMinimalGas ==
    (/\ gasPc = "done"
     /\ SuccessMonotone(call)
     /\ Execute(call, ClaimedUpper(call)) = "ok")
    => estimate = Estimated(MinimalGas(call))

\* The call fails with the same cause at every gas from its intrinsic floor up.
AlwaysFailsWith(c, cause) ==
    \A g \in IntrinsicFloor(c)..Ceiling : Execute(c, g) = cause

\* C7: a call that fails with one cause not attributable to gas at every gas
\* it can run with makes no more than two probes, and the estimation returns
\* the always failing classification carrying that cause.
C7_AlwaysFailingShortCircuit ==
    \A cause \in {"execution reverted", "invalid opcode"} :
        (AlwaysFailsWith(call, cause) /\ ClaimedUpper(call) >= IntrinsicFloor(call))
        => /\ Len(probes) <= 2
           /\ gasPc = "done" =>
                /\ estimate.kind = "always failing transaction"
                /\ estimate.cause = cause

\* C7's case: value sent to a target that rejects it, estimated to the end.
C7_Witness ==
    /\ gasPc = "done"
    /\ call.shape = "transfer"
    /\ AlwaysFailsWith(call, "execution reverted")
    /\ ClaimedUpper(call) >= IntrinsicFloor(call)
    /\ Len(probes) >= 1
    /\ estimate.cause = "execution reverted"

\* C8: a call that runs out of gas at the upper bound gets the out-of-gas
\* error naming that upper bound, and no always failing classification.
C8_OutOfGasNamesAllowance ==
    (gasPc = "done" /\ Execute(call, ClaimedUpper(call)) = "out of gas")
    => /\ estimate.kind = "gas required exceeds allowance"
       /\ estimate.gas = ClaimedUpper(call)

\* C8's case: a capped call that would revert with more gas than the cap.
C8_Witness ==
    /\ gasPc = "done"
    /\ call.gas > 0
    /\ call.gas < Ceiling
    /\ Execute(call, call.gas) = "out of gas"
    /\ Execute(call, Ceiling) = "execution reverted"
    /\ estimate.gas = call.gas

\* The search state's lower bound was probed and failed there.
LowerProvenInsufficient ==
    \E k \in 1..Len(probes) : probes[k].gas = lower /\ probes[k].outcome # "ok"

\* The search state's upper bound was probed and succeeded there, or is the
\* configured ceiling.
UpperProvenSufficient ==
    \/ upper = ClaimedUpper(call)
    \/ \E k \in 1..Len(probes) : probes[k].gas = upper /\ probes[k].outcome = "ok"

\* C9: in every state of the search the lower bound was proven insufficient by
\* a probe, the upper bound was proven sufficient or is the ceiling, and the
\* next candidate lies strictly between them until they are one apart.
C9_BoundsProven ==
    gasPc = "search" =>
        /\ LowerProvenInsufficient
        /\ UpperProvenSufficient
        /\ upper - lower > 1 =>
             (lower < Candidate(lower, upper) /\ Candidate(lower, upper) < upper)


\* ------------------------------------------------------------ C11

\* A step of a Stop call that was given the error the call before it was given.
RepeatedStopStep ==
    /\ lastOp' \in {"StopSetReason", "Stop"}
    /\ lastArg' = "same error"
    /\ <<lastOp, stopPc>> # <<lastOp', stopPc'>>

\* C11: once a Stop call has completed, neither statement of a further Stop
\* call with the same error changes the flag, the reason or Addrs, in any
\* phase of the traced call, and GetResult would return what it would have
\* returned without the further call.
C11_StopIdempotent ==
    [][(interrupt = 1 /\ RepeatedStopStep) =>
           /\ interrupt' = interrupt
           /\ reason' = reason
           /\ Addrs' = Addrs
           /\ GetResultValue(Addrs', reason') = GetResultValue(Addrs, reason)]_vars

\* A second Stop with the same error has completed after the root frame
\* closed, and the tracer has recorded something.
C11_Witness ==
    /\ lastOp = "Stop"
    /\ lastArg = "same error"
    /\ interrupt = 1
    /\ reason = "execution timeout"
    /\ phase = "completed"
    /\ Addrs # EmptyAddrs

\* ------------------------------------------------------------ C12

\* C12: the flag never goes back: a step taken with the flag set leaves it
\* set, whichever hook, Stop statement or GetResult takes it.
C12_FlagMonotonic == [][interrupt = 1 => interrupt' = 1]_vars

\* The flag is set and hooks, a further Stop and GetResult have all run since.
C12_Witness ==
    /\ interrupt = 1
    /\ lastOp = "GetResult"
    /\ lastArg = "-"
    /\ stopPc = "store"
    /\ seen[CREATE2].n = 1


\* ------------------------------------------------------------ C13

\* The value a frame's bytecode is recorded as under configuration c.
RecordedAs(c, input) == IF c.WithByteCode THEN bytesToHex(input) ELSE << >>

\* The step showed the tracer its first creation frame of kind k.
FirstFrameOf(k) == seen[k].n = 0 /\ seen'[k].n = 1

\* C13: with the empty filter and the flag clear, a hook that is shown a
\* creation frame (CaptureStart with create, CaptureEnter with CREATE or
\* CREATE2) leaves the frame's address in Addrs whatever the input is, mapped
\* to the empty string without withByteCode and to the hex of the input with it.
C13_EmptyFilterRecordsAll ==
    [][\A k \in {CREATE, CREATE2} :
          (cfg.OpCode = "" /\ interrupt = 0 /\ FirstFrameOf(k)) =>
              /\ addrToHex(seen'[k].to) \in DOMAIN Addrs'
              /\ Addrs'[addrToHex(seen'[k].to)] = RecordedAs(cfg, seen'[k].input)]_vars

\* A root creation and a nested CREATE2 at two addresses were both recorded
\* with their bytecode, one of them holding the filter-free input STOP.
C13_Witness ==
    /\ cfg = [OpCode |-> "", WithByteCode |-> TRUE]
    /\ interrupt = 0
    /\ seen[CREATE] = [n |-> 1, to |-> "a1", input |-> <<STOP>>]
    /\ seen[CREATE2] = [n |-> 1, to |-> "a2", input |-> <<PUSH1, CREATE2>>]
    /\ Addrs = MapPut(MapPut(EmptyAddrs, addrToHex("a1"), bytesToHex(<<STOP>>)),
                      addrToHex("a2"), bytesToHex(<<PUSH1, CREATE2>>))


\* ------------------------------------------------------------ C14

\* The step read bytecode[i]: it moved the cursor or returned true.
ScanReadStep == i' # i \/ (found = "running" /\ found' = "true")

\* C14: every iteration of findOpcodes reads an index below the length of the
\* bytecode, also when a push at the end lacks operand bytes, every iteration
\* that does not return moves the cursor forward by at least one, and the
\* walk returns.
C14_WalkInBoundsAndTerminates ==
    /\ [][ScanReadStep => (0 <= i /\ i < Len(bytecode))]_vars
    /\ [][i' # i => i' >= i + 1]_vars
    /\ <>(found # "running")

\* The walk returned after a PUSH32 in the last byte took the cursor past the
\* end.
C14_Witness ==
    /\ found = "false"
    /\ Len(bytecode) > 1
    /\ bytecode[Len(bytecode)] = PUSH32
    /\ i = Len(bytecode) + 32


\* ------------------------------------------------------------ C15

\* The step is one of CaptureEnd, CaptureExit, CaptureState, CaptureFault, or
\* a CaptureStart or CaptureEnter that was shown a frame that creates nothing.
NonCreationHookStep ==
    /\ \/ lastOp' \in {"CaptureEnd", "CaptureExit", "CaptureState", "CaptureFault"}
       \/ (lastOp' \in {"CaptureStart", "CaptureEnter"} /\ lastArg' = "call")
    /\ <<lastOp, phase, depth>> # <<lastOp', phase', depth'>>

\* C15: the hooks with empty bodies, CaptureStart without create and
\* CaptureEnter with a kind other than CREATE and CREATE2 leave Addrs, config,
\* the flag and the reason as they were, and Addrs changes only in a
\* CaptureStart or CaptureEnter that is shown a creation frame.
C15_OnlyCreationFramesWrite ==
    /\ [][NonCreationHookStep => UNCHANGED <<Addrs, config, interrupt, reason>>]_vars
    /\ [][Addrs' # Addrs =>
              (lastOp' \in {"CaptureStart", "CaptureEnter"} /\ lastArg' = "create")]_vars

\* A nested call frame was entered by a tracer without filter that had
\* recorded the root creation, with the flag clear.
C15_Witness ==
    /\ lastOp = "CaptureEnter"
    /\ lastArg = "call"
    /\ cfg.OpCode = ""
    /\ interrupt = 0
    /\ seen[CREATE].n = 1
    /\ DOMAIN Addrs = {addrToHex(seen[CREATE].to)}


\* ------------------------------------------------------------ C16

\* The estimate was returned by the shortcut: the second probe ran at the
\* floor and succeeded.
ShortcutTaken ==
    /\ gasPc = "done"
    /\ ShortcutShape(call)
    /\ Len(probes) = 2
    /\ probes[2] = [gas |-> IntrinsicFloor(call), outcome |-> "ok"]

\* C16: for a plain transfer or a call without input, the gas the floor
\* shortcut returns is the gas steps 1 to 4 would return for the same call.
C16_ShortcutEqualsFullSearch == ShortcutTaken => estimate = FullSearch(call)


\* ------------------------------------------------------------ C17

\* The step is a GetResult call made before the root frame has closed.
EarlyGetResultStep == lastOp' = "GetResult" /\ phase \in {"idle", "running"}

\* C17: a GetResult call made before the root frame has closed fails: it does
\* not return the mapping gathered so far as a payload without an error.
C17_EarlyGetResultRejected ==
    [][EarlyGetResultStep => ~(~result'.payload.nil /\ result'.err = "nil")]_vars


\* ------------------------------------------------------------ C18

\* C18: Stop writes the reason before it stores the flag, so whenever the flag
\* is set, at any point between the hooks and GetResult of the executing
\* thread, a Stop call has been made and the reason is the error the latest
\* Stop call was given.
C18_ReasonBeforeFlag == interrupt = 1 => (stopArg \in Reasons /\ reason = stopArg)

\* The first Stop call, with an error, has stored the flag while the traced
\* call runs in a nested frame.
C18_Witness ==
    /\ interrupt = 1
    /\ lastOp = "Stop"
    /\ lastArg = "new error"
    /\ reason = "execution timeout"
    /\ phase = "running"
    /\ depth > 0


\* ------------------------------------------------------------ C19

\* The tracer configured with the name of a push, as constructed.
PushTracerConfig(w) == NewContractTracer([OpCode |-> "PUSH1", WithByteCode |-> w])

\* C19: when the opcode looked for is one of PUSH1..PUSH32, findOpcodes
\* returns false for the bytecode, also when the byte stands at an instruction
\* position, and a tracer configured with the name of a push records nothing
\* for a creation frame that carries the bytecode.
C19_PushTargetNeverFound ==
    /\ (PUSH1 <= opcode /\ opcode <= PUSH32) =>
           (found # "true" /\ ~findOpcodes(bytecode, opcode))
    /\ \A w \in BOOLEAN, to \in Addresses :
           validateAndStoreOpCode(EmptyAddrs, PushTracerConfig(w), bytecode, to)
               = EmptyAddrs

\* The walk returned false for PUSH1 on a bytecode that has PUSH1 at
\* instruction positions.
C19_Witness ==
    /\ found = "false"
    /\ opcode = PUSH1
    /\ bytecode = <<PUSH1, STOP, PUSH1>>


\* ------------------------------------------------------------ C20

\* Addrs after a creation frame was shown to a tracer that filters on STOP:
\* the frame is recorded when its input has the byte 0 at an instruction
\* position, and only then.
StopFilterRecords(k) ==
    LET key == addrToHex(seen'[k].to)
        input == seen'[k].input
    IN Addrs' = IF OccurrencesAsInstruction(input, STOP) # {}
                THEN MapPut(Addrs, key, RecordedAs(cfg, input))
                ELSE Addrs

\* C20: the name "STOP", whose code is 0, is kept by construction and filters
\* like any known opcode: a creation frame is recorded exactly when its input
\* has the byte 0 at an instruction position; a tracer built with another
\* non-empty name whose lookup gives 0 records nothing.
C20_StopIsAValidFilter ==
    /\ [](cfg.OpCode = "STOP" => config.OpCode = "STOP")
    /\ [][\A k \in {CREATE, CREATE2} :
             (cfg.OpCode = "STOP" /\ interrupt = 0 /\ FirstFrameOf(k)) =>
                 StopFilterRecords(k)]_vars
    /\ []((cfg.OpCode \notin {"STOP", ""} /\ StringToOp(cfg.OpCode) = 0) =>
              (config.OpCode = "inv" /\ Addrs = EmptyAddrs))

\* A tracer that filters on STOP was shown a root creation with 0 as push
\* data only and a nested CREATE2 with 0 as an instruction, and recorded the
\* second alone.
C20_Witness ==
    /\ cfg.OpCode = "STOP"
    /\ interrupt = 0
    /\ seen[CREATE] = [n |-> 1, to |-> "a1", input |-> <<PUSH1, STOP>>]
    /\ seen[CREATE2] = [n |-> 1, to |-> "a2", input |-> <<STOP>>]
    /\ DOMAIN Addrs = {addrToHex("a2")}

====
